---- MODULE Spec2Model ----
(***************************************************************************)
(* A model of the BARCODE desktop front end: the configuration classes of  *)
(* core/config.py (from_dict, save_to_yaml, load_from_yaml) and the Run    *)
(* button of main.py (create_processing_worker, its worker, on_run, main). *)
(*                                                                         *)
(* Python values are records [t, n, l]: t is the type ("bool", "int",      *)
(* "float", "str", "list"), n the number (a bool's 0/1, an int, a float    *)
(* counted in tenths: 9 is 0.9) and l the characters of a str or the       *)
(* elements of a list.  YAML scalars are sequences of characters.          *)
(***************************************************************************)
EXTENDS Integers, Sequences, FiniteSets, TLC

VARIABLES
    \* main.py: the objects main() creates and the threads on_run starts
    config, input_config, aggregation_config, threads, mainloop,
    \* a call of from_dict: the class, the dictionary, the outcome
    d_cls, d_data, d_result, d_pc,
    \* a BarcodeConfig saved to a YAML file and loaded back
    y_config, y_file, y_loaded, y_pc

guiVars == <<config, input_config, aggregation_config, threads, mainloop>>

dictVars == <<d_cls, d_data, d_result, d_pc>>

yamlVars == <<y_config, y_file, y_loaded, y_pc>>

vars == <<guiVars, dictVars, yamlVars>>

\* ------------------------------------------------------------------ bounds

\* ints of the explored configurations are -1..MaxInt and the defaults
MaxInt == 1
\* floats of the explored configurations are -0.1 .. MaxTenths/10, by
\* tenths, and the defaults
MaxTenths == 1
\* sections a user removes from a written configuration file
MaxDropped == 1
\* Run clicks while the window is open
MaxClicks == 1
\* Run clicks of a session in which workers overlap
MaxRuns == 2
\* stack files in the selected directory
MaxFiles == 2

\* ------------------------------------------------------------ Python values

PyBool(b) == [t |-> "bool", n |-> IF b THEN 1 ELSE 0, l |-> <<>>]

PyInt(i) == [t |-> "int", n |-> i, l |-> <<>>]

PyFloat(tenths) == [t |-> "float", n |-> tenths, l |-> <<>>]

PyStr(chars) == [t |-> "str", n |-> 0, l |-> chars]

PyList(elems) == [t |-> "list", n |-> 0, l |-> elems]

\* the value of a failed conversion (TclError / ValueError on .get())
PyError == [t |-> "error", n |-> 0, l |-> <<>>]

Abs(i) == IF i < 0 THEN 0 - i ELSE i

Digits == <<"0", "1", "2", "3", "4", "5", "6", "7", "8", "9">>

DigitChar(d) == Digits[d + 1]

IsDigit(c) == \E d \in 0..9 : Digits[d + 1] = c

DigitVal(c) == CHOOSE d \in 0..9 : Digits[d + 1] = c

RECURSIVE NatChars(_)
NatChars(i) ==
    IF i < 10 THEN <<DigitChar(i)>>
    ELSE NatChars(i \div 10) \o <<DigitChar(i % 10)>>

\* str(i) of a Python int
IntChars(i) == IF i < 0 THEN <<"-">> \o NatChars(0 - i) ELSE NatChars(i)

\* repr(x) of a Python float with one fractional digit
FloatChars(tenths) ==
    (IF tenths < 0 THEN <<"-">> ELSE <<>>)
        \o NatChars(Abs(tenths) \div 10) \o <<".">> \o <<DigitChar(Abs(tenths) % 10)>>

RECURSIVE DigitsValue(_, _)
DigitsValue(chars, base) ==
    IF chars = <<>> THEN 0
    ELSE DigitsValue(SubSeq(chars, 1, Len(chars) - 1), base) * base
            + DigitVal(chars[Len(chars)])

AllDigits(chars) == chars # <<>> /\ \A i \in 1..Len(chars) : IsDigit(chars[i])

\* ------------------------------------------------------- tkinter variables

\* What a tkinter Variable of the given kind returns from get() after
\* set(v): StringVar -> str(value), IntVar -> getint, else int(getdouble),
\* DoubleVar -> getdouble, BooleanVar -> getboolean.
TkGet(kind, v) ==
    CASE kind = "bool" ->
            IF v.t \in {"bool", "int", "float"} THEN PyBool(v.n # 0) ELSE PyError
      [] kind = "int" ->
            IF v.t \in {"bool", "int"} THEN PyInt(v.n)
            ELSE IF v.t = "float"
                 THEN PyInt((IF v.n < 0 THEN -1 ELSE 1) * (Abs(v.n) \div 10))
                 ELSE PyError
      [] kind = "double" ->
            IF v.t \in {"bool", "int"} THEN PyFloat(v.n * 10)
            ELSE IF v.t = "float" THEN v ELSE PyError
      [] kind = "string" ->
            CASE v.t = "str" -> v
              [] v.t = "int" -> PyStr(IntChars(v.n))
              [] v.t = "bool" -> PyStr(IntChars(v.n))
              [] v.t = "float" -> PyStr(FloatChars(v.n))
              [] OTHER -> PyError
      [] OTHER -> v

\* ------------------------------------------------------ the config classes

\* A field is <<name, kind of its default factory, default value>>; kind
\* "list" is field(default_factory=list), a factory that makes no Variable.
InputConfig ==
    << <<"file_path", "string", PyStr(<<>>)>>,
       <<"dir_path", "string", PyStr(<<>>)>>,
       <<"mode", "string", PyStr(<<"f", "i", "l", "e">>)>>,
       <<"configuration_file", "string", PyStr(<<>>)>> >>

ChannelConfig ==
    << <<"parse_all_channels", "bool", PyBool(FALSE)>>,
       <<"selected_channel", "int", PyInt(0)>> >>

QualityConfig ==
    << <<"accept_dim_images", "bool", PyBool(FALSE)>>,
       <<"accept_dim_channels", "bool", PyBool(FALSE)>> >>

AnalysisConfig ==
    << <<"enable_binarization", "bool", PyBool(FALSE)>>,
       <<"enable_optical_flow", "bool", PyBool(FALSE)>>,
       <<"enable_intensity_distribution", "bool", PyBool(FALSE)>> >>

OutputConfig ==
    << <<"verbose", "bool", PyBool(FALSE)>>,
       <<"save_graphs", "bool", PyBool(FALSE)>>,
       <<"save_intermediates", "bool", PyBool(FALSE)>>,
       <<"generate_dataset_barcode", "bool", PyBool(FALSE)>> >>

BinarizationConfig ==
    << <<"threshold_offset", "double", PyFloat(1)>>,
       <<"frame_step", "int", PyInt(10)>>,
       <<"frame_start_percent", "double", PyFloat(9)>>,
       <<"frame_stop_percent", "double", PyFloat(10)>> >>

OpticalFlowConfig ==
    << <<"frame_step", "int", PyInt(10)>>,
       <<"window_size", "int", PyInt(32)>>,
       <<"downsample_factor", "int", PyInt(8)>>,
       <<"nm_pixel_ratio", "double", PyFloat(10)>>,
       <<"frame_interval_s", "int", PyInt(1)>> >>

IntensityDistributionConfig ==
    << <<"first_frame", "int", PyInt(1)>>,
       <<"last_frame", "int", PyInt(0)>>,
       <<"frames_evaluation_percent", "double", PyFloat(1)>> >>

PreviewConfig ==
    << <<"sample_file", "string", PyStr(<<>>)>>,
       <<"enable_live_preview", "bool", PyBool(TRUE)>> >>

AggregationConfig ==
    << <<"output_location", "string", PyStr(<<>>)>>,
       <<"generate_barcode", "bool", PyBool(FALSE)>>,
       <<"sort_parameter", "string",
         PyStr(<<"D", "e", "f", "a", "u", "l", "t">>)>>,
       <<"normalize_barcode", "bool", PyBool(FALSE)>>,
       <<"csv_paths_list", "list", PyList(<<>>)>> >>

\* cls.__dataclass_fields__ of every BaseConfig subclass
DataclassFields ==
    [InputConfig |-> InputConfig,
     ChannelConfig |-> ChannelConfig,
     QualityConfig |-> QualityConfig,
     AnalysisConfig |-> AnalysisConfig,
     OutputConfig |-> OutputConfig,
     BinarizationConfig |-> BinarizationConfig,
     OpticalFlowConfig |-> OpticalFlowConfig,
     IntensityDistributionConfig |-> IntensityDistributionConfig,
     PreviewConfig |-> PreviewConfig,
     AggregationConfig |-> AggregationConfig]

ConfigClasses == DOMAIN DataclassFields

FieldNames(cls) == {DataclassFields[cls][i][1] : i \in 1..Len(DataclassFields[cls])}

FieldOf(cls, name) ==
    LET i == CHOOSE j \in 1..Len(DataclassFields[cls]) :
                 DataclassFields[cls][j][1] = name
    IN  DataclassFields[cls][i]

FieldKind(cls, name) == FieldOf(cls, name)[2]

\* cls(): every field from its default factory
Defaults(cls) == [f \in FieldNames(cls) |-> FieldOf(cls, f)[3]]

\* The outcome of a call: the object it returns, or the exception it raises.
Returned(obj) == [ok |-> TRUE, exc |-> "", obj |-> obj]

Raised(exc) == [ok |-> FALSE, exc |-> exc, obj |-> <<>>]

\* First field, in declaration order, that makes from_dict raise: 0 if none.
FirstBadField(cls, data) ==
    LET fields == DataclassFields[cls]
        bad == {i \in 1..Len(fields) :
                   fields[i][1] \notin DOMAIN data \/ fields[i][2] = "list"}
    IN  IF bad = {} THEN 0 ELSE CHOOSE i \in bad : \A j \in bad : i <= j

\* from_dict with the tk_var.set(value) forgotten: every variable keeps the
\* value its factory gave it
from_dict_no_set(cls, data) ==
    IF FirstBadField(cls, data) = 0 THEN Returned(Defaults(cls))
    ELSE Raised("ValueError")

\* BaseConfig.from_dict: a field missing from data raises ValueError; a field
\* whose default factory makes no tkinter Variable fails the isinstance
\* assertion; every other field becomes a fresh Variable set to data's value.
from_dict(cls, data) ==
    LET i == FirstBadField(cls, data)
    IN  IF i = 0
        THEN Returned([f \in FieldNames(cls) |-> data[f]])
        ELSE IF DataclassFields[cls][i][1] \notin DOMAIN data
             THEN Raised("ValueError")
             ELSE Raised("AssertionError")

\* obj.<field>.get() (a plain attribute for a field that is no Variable)
GetField(cls, obj, f) == TkGet(FieldKind(cls, f), obj[f])

\* --------------------------------------------------------------- YAML text

\* A YAML file is a record [exists, kind, map]: kind is what the top level
\* of the document is ("map", "seq", "scalar"); map is, in file order, the
\* sequence of <<section name, [field name |-> scalar text]>> of a mapping.
NoFile == [exists |-> FALSE, kind |-> "map", map |-> <<>>]

YamlFile(kind, map) == [exists |-> TRUE, kind |-> kind, map |-> map]

BoolTexts ==
    {<<"t", "r", "u", "e">>, <<"T", "r", "u", "e">>, <<"y", "e", "s">>, <<"o", "n">>,
     <<"f", "a", "l", "s", "e">>, <<"F", "a", "l", "s", "e">>, <<"n", "o">>,
     <<"o", "f", "f">>}

TrueTexts == {<<"t", "r", "u", "e">>, <<"T", "r", "u", "e">>, <<"y", "e", "s">>, <<"o", "n">>}

Unsigned(chars) ==
    IF chars # <<>> /\ chars[1] \in {"-", "+"} THEN Tail(chars) ELSE chars

Sign(chars) == IF chars # <<>> /\ chars[1] = "-" THEN -1 ELSE 1

DotAt(chars) == {i \in 1..Len(chars) : chars[i] = "."}

\* The implicit resolver of yaml.safe_load (YAML 1.1) on a plain scalar:
\* bool words, decimal and 0-prefixed octal ints, floats digits "." digits.
ResolveTag(chars) ==
    LET u == Unsigned(chars)
    IN  CASE chars \in BoolTexts -> "bool"
          [] AllDigits(u) /\ (Len(u) = 1 \/ u[1] # "0") -> "int"
          [] AllDigits(u) /\ Len(u) > 1 /\ u[1] = "0"
                /\ (\A i \in 1..Len(u) : DigitVal(u[i]) < 8) -> "int"
          [] Cardinality(DotAt(u)) = 1 /\ Len(u) > 1 /\ IsDigit(u[1])
                /\ AllDigits(SelectSeq(u, LAMBDA c : c # ".") ) -> "float"
          [] OTHER -> "str"

\* yaml.safe_load of one scalar: a quoted scalar is a str, a plain one is
\* what the resolver says.  Floats are read to their first fractional digit
\* (the model's floats have one).
ConstructScalar(chars) ==
    LET u == Unsigned(chars)
    IN  IF Len(chars) >= 2 /\ chars[1] = "'" /\ chars[Len(chars)] = "'"
        THEN PyStr(SubSeq(chars, 2, Len(chars) - 1))
        ELSE CASE ResolveTag(chars) = "bool" -> PyBool(chars \in TrueTexts)
               [] ResolveTag(chars) = "int" ->
                    PyInt(Sign(chars)
                          * DigitsValue(u, IF Len(u) > 1 /\ u[1] = "0" THEN 8 ELSE 10))
               [] ResolveTag(chars) = "float" ->
                    LET d == CHOOSE i \in DotAt(u) : TRUE
                        whole == DigitsValue(SubSeq(u, 1, d - 1), 10)
                        frac == IF d < Len(u) THEN DigitVal(u[d + 1]) ELSE 0
                    IN  PyFloat(Sign(chars) * (whole * 10 + frac))
               [] OTHER -> PyStr(chars)

\* yaml.dump of one scalar: represent_bool, represent_int, represent_float
\* (the float's repr), represent_str (quoted when the plain text would not
\* load as a str).
RepresentScalar(v) ==
    CASE v.t = "bool" -> IF v.n = 1 THEN <<"t", "r", "u", "e">>
                         ELSE <<"f", "a", "l", "s", "e">>
      [] v.t = "int" -> IntChars(v.n)
      [] v.t = "float" -> FloatChars(v.n)
      [] OTHER -> IF v.l = <<>> \/ ResolveTag(v.l) # "str"
                  THEN <<"'">> \o v.l \o <<"'">> ELSE v.l

\* ----------------------------------------------------------- BarcodeConfig

\* BarcodeConfig.__dataclass_fields__: <<section, its class>>
BarcodeConfig ==
    << <<"channels", "ChannelConfig">>,
       <<"quality", "QualityConfig">>,
       <<"analysis", "AnalysisConfig">>,
       <<"output", "OutputConfig">>,
       <<"binarization", "BinarizationConfig">>,
       <<"optical_flow", "OpticalFlowConfig">>,
       <<"intensity_distribution", "IntensityDistributionConfig">> >>

Sections == {BarcodeConfig[i][1] : i \in 1..Len(BarcodeConfig)}

SectionClass(s) ==
    LET i == CHOOSE j \in 1..Len(BarcodeConfig) : BarcodeConfig[j][1] = s
    IN  BarcodeConfig[i][2]

\* BarcodeConfig(): every section from its default factory
DefaultBarcodeConfig == [s \in Sections |-> Defaults(SectionClass(s))]

\* the key order of yaml.dump (sort_keys)
SortedSections ==
    <<"analysis", "binarization", "channels", "intensity_distribution",
      "optical_flow", "output", "quality">>

FileSections(file) == {file.map[i][1] : i \in 1..Len(file.map)}

\* BarcodeConfig.save_to_yaml: every Variable's get(), dumped by yaml.dump;
\* a get() that fails raises out of the call and nothing is written.
save_to_yaml(self) ==
    IF \E s \in Sections : \E f \in FieldNames(SectionClass(s)) :
           GetField(SectionClass(s), self[s], f) = PyError
    THEN Raised("TclError")
    ELSE Returned(YamlFile("map",
            [i \in 1..Len(SortedSections) |->
                LET s == SortedSections[i]
                IN  <<s, [f \in FieldNames(SectionClass(s)) |->
                             RepresentScalar(GetField(SectionClass(s), self[s], f))]>>]))

\* one item of the loop of load_from_yaml: the section's from_dict, or the
\* failed assertion for a name that is no field of BarcodeConfig
LoadSection(item) ==
    IF item[1] \notin Sections THEN Raised("AssertionError")
    ELSE from_dict(SectionClass(item[1]),
                   [f \in DOMAIN item[2] |-> ConstructScalar(item[2][f])])

\* BarcodeConfig.load_from_yaml: open, yaml.safe_load, the isinstance check,
\* from_dict per section in file order, cls(**kwargs).
load_from_yaml(file) ==
    LET failing == {i \in 1..Len(file.map) : ~LoadSection(file.map[i]).ok}
        first == CHOOSE i \in failing : \A j \in failing : i <= j
    IN  IF ~file.exists THEN Raised("OSError")
        ELSE IF file.kind # "map" THEN Raised("ValueError")
        ELSE IF failing # {} THEN LoadSection(file.map[first])
        ELSE Returned([s \in Sections |->
                IF s \in FileSections(file)
                THEN LET i == CHOOSE j \in 1..Len(file.map) :
                                 /\ file.map[j][1] = s
                                 /\ \A k \in 1..Len(file.map) :
                                        file.map[k][1] = s => k <= j
                     IN  LoadSection(file.map[i]).obj
                ELSE Defaults(SectionClass(s))])

\* ------------------------------------------------- the explored dictionaries

BoolVals == {PyBool(TRUE), PyBool(FALSE)}

IntVals == {PyInt(i) : i \in -1..MaxInt}

FloatVals == {PyFloat(i) : i \in -1..MaxTenths}

StrVals == {PyStr(<<>>), PyStr(<<"a">>)}

ListVals == {PyList(<<>>), PyList(<<"a.csv">>)}

\* the values of the type a field is declared with, its default among them
ValuesOf(field) ==
    {field[3]} \cup
        CASE field[2] = "bool" -> BoolVals
          [] field[2] = "int" -> IntVals
          [] field[2] = "double" -> FloatVals
          [] field[2] = "string" -> StrVals
          [] OTHER -> ListVals

RECURSIVE DictsUpTo(_, _)
DictsUpTo(cls, k) ==
    IF k = 0 THEN {<<>>}
    ELSE {d @@ (DataclassFields[cls][k][1] :> v) :
              d \in DictsUpTo(cls, k - 1), v \in ValuesOf(DataclassFields[cls][k])}

\* every dictionary with a well-typed value for each field of cls
FullDicts(cls) == DictsUpTo(cls, Len(DataclassFields[cls]))

\* the defaults with one field left out
ShortDicts(cls) ==
    {[f \in FieldNames(cls) \ {g} |-> Defaults(cls)[f]] : g \in FieldNames(cls)}

\* the variables of main.py, of from_dict and of the YAML file while another
\* part of the program is the one explored
IdleGui ==
    /\ config = <<>>
    /\ input_config = <<>>
    /\ aggregation_config = <<>>
    /\ threads = <<>>
    /\ mainloop = FALSE

IdleDict ==
    /\ d_cls = "ChannelConfig"
    /\ d_data = <<>>
    /\ d_result = Raised("")
    /\ d_pc = "idle"

IdleYaml ==
    /\ y_config = <<>>
    /\ y_file = NoFile
    /\ y_loaded = Raised("")
    /\ y_pc = "idle"

\* ---------------------------------------------------- a call of from_dict

DictInit ==
    /\ d_cls \in ConfigClasses
    /\ d_data \in FullDicts(d_cls) \cup ShortDicts(d_cls)
    /\ d_result = Raised("")
    /\ d_pc = "call"
    /\ IdleGui
    /\ IdleYaml

CallFromDict ==
    /\ d_pc = "call"
    /\ d_result' = from_dict(d_cls, d_data)
    /\ d_pc' = "returned"
    /\ UNCHANGED <<d_cls, d_data, guiVars, yamlVars>>

DictNext == CallFromDict

SpecFromDict == DictInit /\ [][DictNext]_vars

\* ------------------------------------------- save_to_yaml, load_from_yaml

\* a BarcodeConfig with every field moved off its default
AllEdited ==
    [s \in Sections |->
        [f \in FieldNames(SectionClass(s)) |->
            CASE FieldKind(SectionClass(s), f) = "bool" -> PyBool(TRUE)
              [] FieldKind(SectionClass(s), f) = "int" -> PyInt(-1)
              [] OTHER -> PyFloat(-1)]]

\* the BarcodeConfigs saved: one section edited at will, or all of them
YamlConfigs ==
    {AllEdited} \cup
        UNION {{[DefaultBarcodeConfig EXCEPT ![s] = d] : d \in FullDicts(SectionClass(s))} :
                   s \in Sections}

YamlInit ==
    /\ y_config \in YamlConfigs
    /\ y_file = NoFile
    /\ y_loaded = Raised("")
    /\ y_pc = "start"
    /\ IdleGui
    /\ IdleDict

\* config.save_to_yaml(filepath)
Save ==
    /\ y_pc = "start"
    /\ save_to_yaml(y_config).ok
    /\ y_file' = save_to_yaml(y_config).obj
    /\ y_pc' = "saved"
    /\ UNCHANGED <<y_config, y_loaded, guiVars, dictVars>>

\* the user deletes one section from the written file
DropSection(s) ==
    /\ y_pc = "saved"
    /\ s \in FileSections(y_file)
    /\ Cardinality(Sections \ FileSections(y_file)) < MaxDropped
    /\ y_file' = [y_file EXCEPT !.map = SelectSeq(@, LAMBDA item : item[1] # s)]
    /\ UNCHANGED <<y_config, y_loaded, y_pc, guiVars, dictVars>>

\* BarcodeConfig.load_from_yaml(filepath)
Load ==
    /\ y_pc = "saved"
    /\ y_loaded' = load_from_yaml(y_file)
    /\ y_pc' = "loaded"
    /\ UNCHANGED <<y_config, y_file, guiVars, dictVars>>

YamlNext ==
    \/ Save
    \/ \E s \in Sections : DropSection(s)
    \/ Load

SpecYaml == YamlInit /\ [][YamlNext]_vars

\* C10: a saved BarcodeConfig loads back with its seven sections, every
\* field of a section the file holds equal to the saved one, every field
\* of a section the file lacks at the section's default.
RoundTrip ==
    y_pc = "loaded" =>
        /\ y_loaded.ok
        /\ DOMAIN y_loaded.obj = Sections
        /\ \A s \in Sections : \A f \in FieldNames(SectionClass(s)) :
              GetField(SectionClass(s), y_loaded.obj[s], f)
                = IF s \in FileSections(y_file)
                  THEN GetField(SectionClass(s), y_config[s], f)
                  ELSE Defaults(SectionClass(s))[f]

\* a file that lacks a section was loaded, for a configuration whose lacking
\* section and another one were both edited
RoundTripWitness ==
    /\ y_pc = "loaded"
    /\ y_loaded.ok
    /\ \E s \in Sections \ FileSections(y_file) :
          y_config[s] # Defaults(SectionClass(s))
    /\ \E s \in FileSections(y_file) : y_config[s] # Defaults(SectionClass(s))

\* ------------------------------------------------------- main.py: the GUI

\* the configuration files on disk, by name
ConfigFiles ==
    ("good.yaml" :> save_to_yaml(AllEdited).obj)
    @@ ("missing.yaml" :> NoFile)
    @@ ("list.yaml" :> YamlFile("seq", <<>>))
    @@ ("unknown.yaml" :>
          YamlFile("map", << <<"chanels", [parse_all_channels |-> <<"t", "r", "u", "e">>,
                                           selected_channel |-> <<"0">>]>> >>))
    @@ ("short.yaml" :>
          YamlFile("map", << <<"channels", [parse_all_channels |-> <<"t", "r", "u", "e">>]>> >>))

\* unreadable, top level no mapping, unknown section, section missing a field
BadConfigFiles == {"missing.yaml", "list.yaml", "unknown.yaml", "short.yaml"}

\* what the file and directory pickers can leave in the path fields
FilePaths == {"", "a.tif"}

DirPaths == {"", "stacks"}

Modes == {"file", "dir", "agg"}

CsvLists == {<<>>, <<"a.csv", "b.csv">>}

OutputLocations == {"", "out"}

SortParameters == {"Default", "Speed"}

\* Python's None, and a str, as the sort argument
None == [none |-> TRUE, name |-> ""]

Some(name) == [none |-> FALSE, name |-> name]

NoCall ==
    [fn |-> "", path |-> "", csv_paths |-> <<>>, output_location |-> "",
     generate_barcode |-> FALSE, sort_parameter |-> None]

\* create_processing_worker that goes on with the GUI's configuration after
\* reporting that the file could not be loaded
create_processing_worker_no_return(cfg, in_cfg) ==
    LET file == in_cfg.configuration_file
        loaded == load_from_yaml(ConfigFiles[file])
    IN  IF file # "" /\ ~loaded.ok
        THEN [worker |-> "worker", config |-> cfg,
              shown |-> {"Error reading config file"}, caller_config |-> cfg]
        ELSE [worker |-> "worker",
              config |-> IF file # "" THEN loaded.obj ELSE cfg,
              shown |-> {}, caller_config |-> cfg]

\* create_processing_worker that copies the loaded sections into the
\* caller's BarcodeConfig instead of binding a new one
create_processing_worker_in_place(cfg, in_cfg) ==
    LET file == in_cfg.configuration_file
        loaded == load_from_yaml(ConfigFiles[file])
    IN  IF file # "" /\ ~loaded.ok
        THEN [worker |-> "None", config |-> cfg,
              shown |-> {"Error reading config file"}, caller_config |-> cfg]
        ELSE [worker |-> "worker",
              config |-> IF file # "" THEN loaded.obj ELSE cfg,
              shown |-> {},
              caller_config |-> IF file # "" THEN loaded.obj ELSE cfg]

\* create_processing_worker: with a configuration file set, the local name
\* config is bound to the loaded BarcodeConfig, or the error is shown and
\* None returned; the worker closes over config.  caller_config is the
\* caller's object, which no statement of the function writes to.
create_processing_worker(cfg, in_cfg) ==
    LET file == in_cfg.configuration_file
        loaded == load_from_yaml(ConfigFiles[file])
    IN  IF file # "" /\ ~loaded.ok
        THEN [worker |-> "None", config |-> cfg,
              shown |-> {"Error reading config file"}, caller_config |-> cfg]
        ELSE [worker |-> "worker",
              config |-> IF file # "" THEN loaded.obj ELSE cfg,
              shown |-> {}, caller_config |-> cfg]

\* the thread on_run starts for what create_processing_worker returned
NewThread(r, file) ==
    [pc |-> "ready", worker |-> r.worker, config |-> r.config, cfgfile |-> file,
     errors |-> r.shown, info |-> FALSE, mode |-> "", call |-> NoCall,
     nfiles |-> 0, idx |-> 0, phase |-> "boundary", returned |-> FALSE]

\* the two checks before aggregation without the one of the CSV list
AggInputErrorNoCsvCheck(csv_paths, combined_location) ==
    IF combined_location = "" THEN "No aggregate location specified." ELSE ""

\* the two checks before aggregation: the message shown, "" when both pass
AggInputError(csv_paths, combined_location) ==
    IF csv_paths = <<>> THEN "No CSV files selected for aggregation."
    ELSE IF combined_location = "" THEN "No aggregate location specified."
    ELSE ""

\* the sort parameter passed on as selected
sort_choice_as_selected(sort_param) == Some(sort_param)

\* sort_choice = None if sort_param == "Default" else sort_param
sort_choice(sort_param) ==
    IF sort_param = "Default" THEN None ELSE Some(sort_param)

\* dir_name = dir_path if dir_path else file_path
dir_name(dir_path, file_path) == IF dir_path # "" THEN dir_path ELSE file_path

\* the files run_analysis discovers under a path
DiscoveredFiles(path) == IF path \in DirPaths THEN MaxFiles ELSE 1

\* worker(), from its first statement to its first blocking call or to the
\* return out of the try block (which the finally block follows)
worker(th, in_cfg, agg_cfg) ==
    LET mode == in_cfg.mode
        combined_location == agg_cfg.output_location
        generate_agg_barcode == agg_cfg.generate_barcode
        sort_param == agg_cfg.sort_parameter
        csv_paths == agg_cfg.csv_paths_list
        file_path == in_cfg.file_path
        dir_path == in_cfg.dir_path
        channels == GetField("ChannelConfig", th.config["channels"], "parse_all_channels")
        channel_selection ==
            GetField("ChannelConfig", th.config["channels"], "selected_channel")
        seen == [th EXCEPT !.mode = mode]
    IN  IF mode = "agg"
        THEN IF AggInputError(csv_paths, combined_location) # ""
             THEN [seen EXCEPT !.errors = @ \cup {AggInputError(csv_paths, combined_location)},
                               !.pc = "finally"]
             ELSE [seen EXCEPT !.pc = "in_aggregate",
                               !.call = [fn |-> "generate_aggregate_csv", path |-> "",
                                         csv_paths |-> csv_paths,
                                         output_location |-> combined_location,
                                         generate_barcode |-> generate_agg_barcode,
                                         sort_parameter |-> sort_choice(sort_param)]]
        ELSE IF ~(dir_path # "" \/ file_path # "")
             THEN [seen EXCEPT !.errors = @ \cup {"No file or directory has been selected."},
                               !.pc = "finally"]
             ELSE IF channels = PyError \/ channel_selection = PyError
             THEN [seen EXCEPT !.pc = "except"]
             \* channel_selection is an int, and an int is never None
             ELSE IF ~(channels.n = 1 \/ channel_selection.t = "int")
             THEN [seen EXCEPT !.errors = @ \cup {"No channel has been specified."},
                               !.pc = "finally"]
             ELSE [seen EXCEPT !.pc = "in_analysis",
                               !.call = [NoCall EXCEPT !.fn = "run_analysis",
                                                       !.path = dir_name(dir_path, file_path)],
                               !.nfiles = DiscoveredFiles(dir_name(dir_path, file_path)),
                               !.idx = 0, !.phase = "boundary"]

\* main() up to root.mainloop(): config is BarcodeConfig(); input_config and
\* aggregation_config hold what the widgets have put in them when the user
\* turns to the Run button
GuiInit ==
    /\ config = DefaultBarcodeConfig
    /\ input_config \in [file_path : FilePaths, dir_path : DirPaths, mode : Modes,
                         configuration_file : {""} \cup DOMAIN ConfigFiles]
    /\ aggregation_config \in [output_location : OutputLocations,
                               generate_barcode : BOOLEAN,
                               sort_parameter : SortParameters,
                               normalize_barcode : BOOLEAN,
                               csv_paths_list : CsvLists]
    /\ threads = <<>>
    /\ mainloop = TRUE
    /\ IdleDict
    /\ IdleYaml

\* the mode radio buttons
SetMode(m) ==
    /\ mainloop
    /\ m # input_config.mode
    /\ input_config' = [input_config EXCEPT !.mode = m]
    /\ UNCHANGED <<config, aggregation_config, threads, mainloop, dictVars, yamlVars>>

\* on_run: the Run button's command, for at most limit clicks
on_run(limit) ==
    /\ mainloop
    /\ Len(threads) < limit
    /\ LET r == create_processing_worker(config, input_config)
       IN  /\ config' = r.caller_config
           /\ threads' = Append(threads, NewThread(r, input_config.configuration_file))
    /\ UNCHANGED <<input_config, aggregation_config, mainloop, dictVars, yamlVars>>

\* Thread.run: the target is called, if there is one
ThreadRun(w) ==
    /\ mainloop
    /\ threads[w].pc = "ready"
    /\ threads' = [threads EXCEPT ![w] =
                      IF @.worker = "None" THEN [@ EXCEPT !.pc = "done"]
                      ELSE worker(@, input_config, aggregation_config)]
    /\ UNCHANGED <<config, input_config, aggregation_config, mainloop, dictVars, yamlVars>>

\* run_analysis starts on its next file
AnalysisBeginFile(w) ==
    /\ mainloop
    /\ threads[w].pc = "in_analysis"
    /\ threads[w].phase = "boundary"
    /\ threads[w].idx < threads[w].nfiles
    /\ threads' = [threads EXCEPT ![w].phase = "midfile"]
    /\ UNCHANGED <<config, input_config, aggregation_config, mainloop, dictVars, yamlVars>>

\* run_analysis is done with a file: its CSV written, or its failure recorded
AnalysisEndFile(w) ==
    /\ mainloop
    /\ threads[w].pc = "in_analysis"
    /\ threads[w].phase = "midfile"
    /\ threads' = [threads EXCEPT ![w].phase = "boundary", ![w].idx = @ + 1]
    /\ UNCHANGED <<config, input_config, aggregation_config, mainloop, dictVars, yamlVars>>

\* run_analysis returns after its last file
AnalysisReturn(w) ==
    /\ mainloop
    /\ threads[w].pc = "in_analysis"
    /\ threads[w].phase = "boundary"
    /\ threads[w].idx = threads[w].nfiles
    /\ threads' = [threads EXCEPT ![w].pc = "finally", ![w].returned = TRUE]
    /\ UNCHANGED <<config, input_config, aggregation_config, mainloop, dictVars, yamlVars>>

\* run_analysis raises before its first file (the path cannot be read)
AnalysisRaise(w) ==
    /\ mainloop
    /\ threads[w].pc = "in_analysis"
    /\ threads[w].phase = "boundary"
    /\ threads[w].idx = 0
    /\ threads' = [threads EXCEPT ![w].pc = "except"]
    /\ UNCHANGED <<config, input_config, aggregation_config, mainloop, dictVars, yamlVars>>

\* generate_aggregate_csv returns
AggregateReturn(w) ==
    /\ mainloop
    /\ threads[w].pc = "in_aggregate"
    /\ threads' = [threads EXCEPT ![w].pc = "finally", ![w].returned = TRUE]
    /\ UNCHANGED <<config, input_config, aggregation_config, mainloop, dictVars, yamlVars>>

\* generate_aggregate_csv raises (NoSuchSortColumn, an unreadable CSV)
AggregateRaise(w) ==
    /\ mainloop
    /\ threads[w].pc = "in_aggregate"
    /\ threads' = [threads EXCEPT ![w].pc = "except"]
    /\ UNCHANGED <<config, input_config, aggregation_config, mainloop, dictVars, yamlVars>>

\* except Exception: the error is printed and shown
HandleException(w) ==
    /\ mainloop
    /\ threads[w].pc = "except"
    /\ threads' = [threads EXCEPT ![w].pc = "finally",
                                  ![w].errors = @ \cup {"Error during processing"}]
    /\ UNCHANGED <<config, input_config, aggregation_config, mainloop, dictVars, yamlVars>>

\* finally: "Processing Complete" is shown
Finally(w) ==
    /\ mainloop
    /\ threads[w].pc = "finally"
    /\ threads' = [threads EXCEPT ![w].pc = "done", ![w].info = TRUE]
    /\ UNCHANGED <<config, input_config, aggregation_config, mainloop, dictVars, yamlVars>>

\* The window is closed: root.mainloop() and main() return, the interpreter
\* exits, and every daemon thread still running stops where it is.
CloseWindow ==
    /\ mainloop
    /\ mainloop' = FALSE
    /\ threads' = [w \in DOMAIN threads |->
                      IF threads[w].pc = "done" THEN threads[w]
                      ELSE [threads[w] EXCEPT !.pc = "killed"]]
    /\ UNCHANGED <<config, input_config, aggregation_config, dictVars, yamlVars>>

\* a step of a thread on_run started
ThreadStep ==
    \/ \E w \in DOMAIN threads : ThreadRun(w)
    \/ \E w \in DOMAIN threads : AnalysisBeginFile(w)
    \/ \E w \in DOMAIN threads : AnalysisEndFile(w)
    \/ \E w \in DOMAIN threads : AnalysisReturn(w)
    \/ \E w \in DOMAIN threads : AnalysisRaise(w)
    \/ \E w \in DOMAIN threads : AggregateReturn(w)
    \/ \E w \in DOMAIN threads : AggregateRaise(w)
    \/ \E w \in DOMAIN threads : HandleException(w)
    \/ \E w \in DOMAIN threads : Finally(w)

\* what the user does to the window
UserStep(limit) ==
    \/ \E m \in Modes : SetMode(m)
    \/ on_run(limit)
    \/ CloseWindow

Next == UserStep(MaxClicks) \/ ThreadStep

Spec == GuiInit /\ [][Next]_vars

SessionNext == UserStep(MaxRuns) \/ ThreadStep

SpecSession == GuiInit /\ [][SessionNext]_vars

\* ------------------------------------------------------------- the claims

\* C1: no aggregation starts while a run_analysis started by an earlier Run
\* click is in flight.
AggregationWaitsForAnalyses ==
    [][\A w2 \in DOMAIN threads :
          (threads[w2].pc # "in_aggregate" /\ threads'[w2].pc = "in_aggregate")
              => \A w1 \in 1..(w2 - 1) : threads[w1].pc # "in_analysis"]_vars

\* C2: a worker that is stopped while run_analysis works through its files
\* is stopped at a file boundary, never in the middle of a file.
StopsOnlyAtFileBoundary ==
    \A w \in DOMAIN threads :
        (threads[w].pc = "killed" /\ threads[w].call.fn = "run_analysis")
            => threads[w].phase = "boundary"

\* C3: run_analysis gets file_path in a run whose mode is "file" and
\* dir_path in a run whose mode is "dir".
ModeSelectsPath ==
    \A w \in DOMAIN threads :
        threads[w].call.fn = "run_analysis" =>
            /\ threads[w].mode = "file" => threads[w].call.path = input_config.file_path
            /\ threads[w].mode = "dir" => threads[w].call.path = input_config.dir_path

\* C4: generate_aggregate_csv is called only with a non-empty CSV list and a
\* non-empty output location; an aggregation run that finds either empty
\* reports an error and makes no call.
AggregationInputsChecked ==
    \A w \in DOMAIN threads :
        /\ threads[w].call.fn = "generate_aggregate_csv" =>
              /\ threads[w].call.csv_paths # <<>>
              /\ threads[w].call.output_location # ""
        /\ (/\ threads[w].mode = "agg"
            /\ \/ aggregation_config.csv_paths_list = <<>>
               \/ aggregation_config.output_location = "") =>
              /\ threads[w].call.fn = ""
              /\ threads[w].errors \cap {"No CSV files selected for aggregation.",
                                         "No aggregate location specified."} # {}

\* an aggregation run over an empty CSV list has ended
AggregationRefused ==
    \E w \in DOMAIN threads :
        /\ threads[w].mode = "agg"
        /\ threads[w].pc = "done"
        /\ aggregation_config.csv_paths_list = <<>>
        /\ aggregation_config.output_location # ""

\* C5: a Run click whose configuration file fails to load reports the error
\* and executes neither run_analysis nor generate_aggregate_csv.
ConfigLoadFailureIsFatal ==
    \A w \in DOMAIN threads :
        threads[w].cfgfile \in BadConfigFiles =>
            /\ "Error reading config file" \in threads[w].errors
            /\ threads[w].call.fn = ""
            /\ threads[w].mode = ""

\* the thread of a click with a section short of a field has ended, in a
\* mode and with paths that a loadable configuration would have analysed
ConfigLoadFailed ==
    \E w \in DOMAIN threads :
        /\ threads[w].cfgfile = "short.yaml"
        /\ threads[w].pc = "done"
        /\ input_config.mode = "dir"
        /\ input_config.dir_path # ""

SortChoicePassedThrough ==
    \A w \in DOMAIN threads :
        threads[w].call.fn = "generate_aggregate_csv" =>
            /\ threads[w].call.sort_parameter.none
                  <=> aggregation_config.sort_parameter = "Default"
            /\ ~threads[w].call.sort_parameter.none =>
                  threads[w].call.sort_parameter.name = aggregation_config.sort_parameter
            /\ threads[w].call.csv_paths = aggregation_config.csv_paths_list
            /\ threads[w].call.output_location = aggregation_config.output_location
            /\ threads[w].call.generate_barcode = aggregation_config.generate_barcode

\* an aggregation sorted by a column, with a barcode, has returned
SortedAggregationDone ==
    \E w \in DOMAIN threads :
        /\ threads[w].call.fn = "generate_aggregate_csv"
        /\ threads[w].returned
        /\ aggregation_config.sort_parameter # "Default"
        /\ aggregation_config.generate_barcode

\* C8: "Processing Complete" is shown only in a run whose analysis or
\* aggregation returned and that reported no error.
CompleteOnlyAfterSuccess ==
    \A w \in DOMAIN threads :
        threads[w].info => (threads[w].returned /\ threads[w].errors = {})

\* C9: from_dict of any BaseConfig subclass, given a value for each field,
\* returns an instance whose fields hold the dictionary's values.
FromDictBuildsEveryClass ==
    (d_pc = "returned" /\ DOMAIN d_data = FieldNames(d_cls)) =>
        /\ d_result.ok
        /\ \A f \in FieldNames(d_cls) : GetField(d_cls, d_result.obj, f) = d_data[f]

====
